---- MODULE Spec2Model ----
(***************************************************************************)
(* Model of amazonbot.py: the watch loop run_watcher with its selector     *)
(* prober, item extractor, keyword matcher, apply-click strategy, refresh  *)
(* controller and cooldown backoff.                                        *)
(*                                                                         *)
(* Texts are sequences of one-character strings.  An optional value        *)
(* (Python None or a value) is a sequence of length 0 or 1.                *)
(* Browser calls are the environment: each one that can raise in the code  *)
(* has a raising and a returning outcome here; asyncio.sleep and the two   *)
(* close() calls before a return are taken to return normally.             *)
(***************************************************************************)
EXTENDS Integers, Sequences, FiniteSets, TLC

\* ------------------------------------------------------------------ bounds
MaxItems == 2        \* elements one extraction returns at most
MaxErrs == 6         \* cycle-level errors in a row the model follows
RefreshEvery == 1    \* the non-zero value of hard_refresh_every that is tried
MaxIntervalArg == 2  \* largest value tried for min_interval / max_interval
MaxTextLen == 3      \* longest text given to text_matches
MaxKeywords == 2     \* longest keyword list given to text_matches
MaxAnswering == 2    \* candidate selectors that match some element or raise

\* ------------------------------------------------------- program constants
BackoffBase == 5
BackoffCap == 120
IdPrefixLen == 180
ProbeSample == 8
MinGoodTextLen == 5

None == <<>>
Some(x) == <<x>>

Min(a, b) == IF a < b THEN a ELSE b

\* ----------------------------------------------------------- pure helpers
IsSpace(c) == c \in {" ", "\t", "\n"}

LowerChar(c) ==
    CASE c = "P" -> "p"
      [] c = "T" -> "t"
      [] c = "A" -> "a"
      [] OTHER -> c

\* str.lower()
Lower(s) == [i \in 1..Len(s) |-> LowerChar(s[i])]

RECURSIVE LStrip(_)
LStrip(s) == IF s # <<>> /\ IsSpace(Head(s)) THEN LStrip(Tail(s)) ELSE s

RECURSIVE RStrip(_)
RStrip(s) ==
    IF s # <<>> /\ IsSpace(s[Len(s)]) THEN RStrip(SubSeq(s, 1, Len(s) - 1)) ELSE s

\* str.strip()
Strip(s) == RStrip(LStrip(s))

\* re.sub(r"\s+", " ", s): every run of whitespace becomes one space
CollapseWs(s) ==
    LET marked == [i \in 1..Len(s) |->
                     [c |-> IF IsSpace(s[i]) THEN " " ELSE s[i],
                      drop |-> IsSpace(s[i]) /\ i > 1 /\ IsSpace(s[i - 1])]]
        kept == SelectSeq(marked, LAMBDA m : ~m.drop)
    IN [i \in 1..Len(kept) |-> kept[i].c]

\* clean_text(s): s is an optional text
clean_text(s) == Strip(CollapseWs(IF s = None THEN <<>> ELSE s[1]))

\* Python's "k in text" for strings
Contains(text, k) ==
    \E i \in 0..(Len(text) - Len(k)) : SubSeq(text, i + 1, i + Len(k)) = k

\* text_matches that compares the text as it is, without lower()
text_matches_CaseSensitive(text, include_keywords, exclude_keywords) ==
    IF include_keywords # <<>>
       /\ ~ \E i \in 1..Len(include_keywords) :
              Contains(text, Lower(Strip(include_keywords[i])))
    THEN FALSE
    ELSE IF exclude_keywords # <<>>
            /\ \E i \in 1..Len(exclude_keywords) :
                 Contains(text, Lower(Strip(exclude_keywords[i])))
         THEN FALSE
         ELSE TRUE

text_matches(text, include_keywords, exclude_keywords) ==
    LET lower == Lower(text) IN
    IF include_keywords # <<>>
       /\ ~ \E i \in 1..Len(include_keywords) :
              Contains(lower, Lower(Strip(include_keywords[i])))
    THEN FALSE
    ELSE IF exclude_keywords # <<>>
            /\ \E i \in 1..Len(exclude_keywords) :
                 Contains(lower, Lower(Strip(exclude_keywords[i])))
         THEN FALSE
         ELSE TRUE

\* txt[:n]
Prefix(s, n) == SubSeq(s, 1, Min(n, Len(s)))

\* Python truthiness of an optional string: None and "" are falsy
Truthy(h) == h # None /\ h[1] # <<>>

\* JobRecord whose id leaves the href out
JobRecord_NoHref(c) ==
    LET txt == clean_text(c.text)
        href == c.href
    IN [text |-> txt,
        href |-> href,
        id |-> Lower(Prefix(txt, IdPrefixLen) \o <<" ", "|", " ">>)]

\* the record extract_job_items builds for one element c
JobRecord(c) ==
    LET txt == clean_text(c.text)
        href == c.href
    IN [text |-> txt,
        href |-> href,
        id |-> Lower(Prefix(txt, IdPrefixLen) \o <<" ", "|", " ">>
                     \o (IF Truthy(href) THEN href[1] ELSE <<>>))]


\* --------------------------------------------------------- selector prober
JOB_CARD_SELECTORS ==
    << "[data-testid*='job']",
       "[data-test*='job']",
       "div[class*='job']:has(a)",
       "div[class*='tile']:has(a)",
       "li:has(a)",
       "article:has(a)",
       "div:has(:text-matches('Apply', 'i'))" >>

FallbackSelector == "a"
FallbackCap == 500

\* one sampled handle: its text_content(), whether query_selector("a") finds a
\* link, and whether one of these two reads raises
GoodHandle == [text |-> Some(<<"P", "a", " ", "p", "a">>), link |-> TRUE, raises |-> FALSE]
ShortHandle == [text |-> Some(<<"P", " ", " ", " ", "a", " ">>), link |-> TRUE, raises |-> FALSE]
NoLinkHandle == [text |-> Some(<<"P", "a", " ", "p", "a">>), link |-> FALSE, raises |-> FALSE]
NoTextHandle == [text |-> None, link |-> TRUE, raises |-> FALSE]
RaisingHandle == [text |-> None, link |-> FALSE, raises |-> TRUE]

NoHandles == [raises |-> FALSE, handles |-> <<>>]
Raises == [raises |-> TRUE, handles |-> <<>>]
Found(hs) == [raises |-> FALSE, handles |-> hs]

\* what page.query_selector_all answers for each candidate on a given markup
Markups ==
    { [i \in 1..Len(JOB_CARD_SELECTORS) |-> NoHandles],
      [i \in 1..Len(JOB_CARD_SELECTORS) |->
          IF i = 1 THEN Raises
          ELSE IF i = 2 THEN Found(<<ShortHandle, NoLinkHandle>>)
          ELSE IF i = 5 THEN Found(<<GoodHandle>>)
          ELSE NoHandles] }

\* Good that looks at every handle, not only at handles[:8]
Good_WholeList(handles) ==
    Cardinality({ j \in 1..Len(handles) :
                    Len(clean_text(handles[j].text)) >= MinGoodTextLen
                    /\ handles[j].link })

\* the number of sampled handles (handles[:8]) that look like job tiles
Good(handles) ==
    Cardinality({ j \in 1..Min(ProbeSample, Len(handles)) :
                    Len(clean_text(handles[j].text)) >= MinGoodTextLen
                    /\ handles[j].link })

\* a read of one of the sampled handles raises: the except clause skips the
\* candidate whatever the handles before it looked like
SampleRaises(handles) ==
    \E j \in 1..Min(ProbeSample, Len(handles)) : handles[j].raises

RECURSIVE PickFrom(_, _)
PickFrom(markup, i) ==
    IF i > Len(JOB_CARD_SELECTORS) THEN None
    ELSE IF markup[i].raises THEN PickFrom(markup, i + 1)
    ELSE IF Len(markup[i].handles) = 0 THEN PickFrom(markup, i + 1)
    ELSE IF SampleRaises(markup[i].handles) THEN PickFrom(markup, i + 1)
    ELSE IF Good(markup[i].handles) >= 1 THEN Some(JOB_CARD_SELECTORS[i])
    ELSE PickFrom(markup, i + 1)

\* pick_working_job_selector(page): an optional selector
pick_working_job_selector(markup) == PickFrom(markup, 1)

\* ------------------------------------------------------------ the listings
\* elements a query can return: text_content() and the href of the first a[href]
Universe ==
    << [text |-> Some(<<"P", " ", " ", "a">>), href |-> Some(<<"/", "1">>)],
       [text |-> Some(<<"p", "b">>),           href |-> None],
       [text |-> Some(<<"p", "b">>),           href |-> Some(<<>>)],
       [text |-> Some(<<"p", "T">>),           href |-> Some(<<"/", "3">>)] >>

include_keywords == << <<"p">> >>
exclude_keywords == << <<"t">> >>

\* sequences of element handles of length 0..n
RECURSIVE ElementSeqs(_)
ElementSeqs(n) ==
    IF n = 0 THEN { <<>> }
    ELSE LET shorter == ElementSeqs(n - 1) IN
         shorter \cup { Append(s, e) : s \in shorter, e \in 1..Len(Universe) }

\* extract_job_items on the elements cards (those whose reads did not raise)
extract_job_items(cards) ==
    [i \in 1..Len(cards) |->
        LET r == JobRecord(Universe[cards[i]]) IN
        [el |-> cards[i], text |-> r.text, href |-> r.href, id |-> r.id]]


\* ------------------------------------------------------------------- state
VARIABLES
    pc,                  \* position of run_watcher
    dry_run, keep_running, hard_refresh_every, min_interval, max_interval,
    elapsed,             \* time.time() - last_hard_refresh, saturating
    seen_ids,
    backoff,
    job_card_selector,
    todo,                \* candidates the for loop has not yet visited
    errs,                \* cycle-level errors since the last error-free cycle
    acts,                \* what the apply-click strategy did for the last record
    clickAttempted,      \* some step of the apply-click strategy has run
    reloaded,            \* page refreshed or navigated back since the last probe
    navigated,           \* page sent to a detail view since the last probe
    hasMatched,          \* some candidate has matched
    hasClicked,          \* some apply click has reported success
    recovered,           \* the last cycle was error-free and came after failed cycles
    arg, res,            \* argument and result of a function called on its own
    page,                \* "listing" or, for any other page, "elsewhere"
    waits,               \* sleeps since the last extraction (saturating at 2)
    ev,                  \* what the step just taken did
    tracking,            \* whether the tracked listing is followed in this run
    handed               \* the tracked listing was given to the apply-click strategy

vars == << pc, dry_run, keep_running, hard_refresh_every, min_interval,
           max_interval, elapsed, seen_ids, backoff, job_card_selector, todo,
           errs, acts, clickAttempted, reloaded, navigated, hasMatched, hasClicked,
           recovered, arg, res, page, waits, ev, tracking, handed >>

\* what no step of run_watcher changes: its arguments, and the argument and
\* result of the function specifications
config == << dry_run, keep_running, hard_refresh_every, min_interval, max_interval,
            arg, res, tracking >>

\* the clock only has to tell whether the refresh interval has been exceeded
Advance(dt) == Min(elapsed + dt, hard_refresh_every + 1)

Last(s) == s[Len(s)]

\* the kind of step an entry of ev records
Kind(e) == IF e = <<>> THEN "none" ELSE e[1]

\* the identity of the listing followed through the run
TrackedId == JobRecord(Universe[1]).id

\* the state after the first lines of run_watcher (up to line 271)
Start ==
    /\ pc = "ensure_context"
    /\ dry_run \in BOOLEAN
    /\ keep_running \in BOOLEAN
    /\ hard_refresh_every \in {0, RefreshEvery}
    /\ min_interval \in 1..MaxIntervalArg
    /\ max_interval \in min_interval..MaxIntervalArg
    /\ elapsed = 0
    /\ seen_ids = {}
    /\ backoff = BackoffBase
    /\ job_card_selector = "unset"
    /\ todo = <<>>
    /\ errs = 0
    /\ acts = <<>>
    /\ clickAttempted = FALSE
    /\ reloaded = FALSE
    /\ navigated = FALSE
    /\ hasMatched = FALSE
    /\ hasClicked = FALSE
    /\ recovered = FALSE
    /\ arg = <<>>
    /\ res = <<>>
    /\ page = "elsewhere"
    /\ waits = 0
    /\ ev = <<>>
    /\ handed = FALSE

Init == Start /\ tracking = FALSE

\* ----------------------------------------------------------------- startup
\* ensure_context, context.new_page and page.goto run outside the try block
Startup ==
    /\ pc \in {"ensure_context", "new_page", "goto"}
    /\ \E ok \in BOOLEAN :
         /\ pc' = IF ~ok THEN "crashed"
                  ELSE IF pc = "ensure_context" THEN "new_page"
                  ELSE IF pc = "new_page" THEN "goto"
                  ELSE "first_pick"
         /\ page' = IF ok /\ pc = "goto" THEN "listing" ELSE page
    /\ ev' = <<>>
    /\ UNCHANGED << waits, handed >>
    /\ UNCHANGED << config, elapsed, seen_ids, backoff, job_card_selector, todo,
                    errs, acts, clickAttempted, reloaded, navigated, hasMatched,
                    hasClicked,
                    recovered >>

FirstPick ==
    /\ pc = "first_pick"
    /\ \E m \in Markups :
         LET sel == pick_working_job_selector(m) IN
         /\ job_card_selector' = IF sel # None THEN sel[1] ELSE FallbackSelector
         /\ ev' = <<"probe", sel>>
    /\ pc' = "loop"
    /\ UNCHANGED << page, waits, handed >>
    /\ UNCHANGED << config, elapsed, seen_ids, backoff, todo, errs, acts,
                    clickAttempted, reloaded, navigated, hasMatched, hasClicked,
                    recovered >>

\* ----------------------------------------------------------------- a cycle
\* RefreshDue that already fires when the interval is reached
RefreshDue_AtLeast == hard_refresh_every > 0 /\ elapsed >= hard_refresh_every

RefreshDue == hard_refresh_every > 0 /\ elapsed > hard_refresh_every

\* soft_hard_refresh swallows the failure of the reload and of the fallback goto
SoftHardRefresh ==
    /\ pc = "loop"
    /\ RefreshDue
    /\ elapsed' = 0
    /\ reloaded' = TRUE
    /\ pc' = "repick"
    /\ \E outcome \in {"reload", "goto", "failed"} :
         /\ page' = IF outcome = "goto" THEN "listing" ELSE page
         /\ ev' = <<"refresh", outcome>>
    /\ UNCHANGED << waits, handed >>
    /\ UNCHANGED << config, seen_ids, backoff, job_card_selector, todo, errs,
                    acts, clickAttempted, navigated, hasMatched, hasClicked,
                    recovered >>

RePick ==
    /\ pc = "repick"
    /\ \E m \in Markups :
         LET sel == pick_working_job_selector(m) IN
         /\ job_card_selector' = IF sel # None THEN sel[1] ELSE job_card_selector
         /\ ev' = <<"probe", sel>>
    /\ reloaded' = FALSE
    /\ navigated' = FALSE
    /\ pc' = "extract"
    /\ UNCHANGED << page, waits, handed >>
    /\ UNCHANGED << config, elapsed, seen_ids, backoff, todo, errs, acts,
                    clickAttempted, hasMatched, hasClicked,
                    recovered >>

NoRefresh ==
    /\ pc = "loop"
    /\ ~RefreshDue
    /\ pc' = "extract"
    /\ ev' = <<>>
    /\ UNCHANGED << page, waits, handed >>
    /\ UNCHANGED << config, elapsed, seen_ids, backoff, job_card_selector, todo,
                    errs, acts, clickAttempted, reloaded, navigated, hasMatched,
                    hasClicked,
                    recovered >>

\* Raise with no handler around the cycle
Raise_Unhandled ==
    /\ errs < MaxErrs
    /\ pc' = "crashed"
    /\ errs' = errs + 1
    /\ todo' = <<>>

\* an exception reaches "except Exception" of the while loop
Raise ==
    /\ errs < MaxErrs
    /\ pc' = "cooldown"
    /\ errs' = errs + 1
    /\ todo' = <<>>

Cap(items) ==
    IF job_card_selector = FallbackSelector /\ Len(items) > FallbackCap
    THEN SubSeq(items, 1, FallbackCap) ELSE items

NewItems(items) == SelectSeq(items, LAMBDA it : it.id \notin seen_ids)

\* Candidates that never prefers the new items
Candidates_AlwaysAll(items) == items

Candidates(items) == IF NewItems(items) # <<>> THEN NewItems(items) ELSE items

\* ExtractRaises that starts the next cycle without the cooldown sleep
ExtractRaises_NoCooldown ==
    /\ pc = "extract"
    /\ errs < MaxErrs
    /\ pc' = "loop"
    /\ errs' = errs + 1
    /\ todo' = <<>>
    /\ ev' = <<"raise">>
    /\ waits' = 0
    /\ UNCHANGED << page, handed >>
    /\ UNCHANGED << config, elapsed, seen_ids, backoff, job_card_selector, acts,
                    clickAttempted, reloaded, navigated, hasMatched, hasClicked,
                    recovered >>

\* page.query_selector_all of extract_job_items raises
ExtractRaises ==
    /\ pc = "extract"
    /\ Raise
    /\ ev' = <<"raise">>
    /\ waits' = 0
    /\ UNCHANGED << page, handed >>
    /\ UNCHANGED << config, elapsed, seen_ids, backoff, job_card_selector, acts,
                    clickAttempted, reloaded, navigated, hasMatched, hasClicked,
                    recovered >>

Extract ==
    /\ pc = "extract"
    /\ \E cards \in ElementSeqs(MaxItems) :
         LET items == Cap(extract_job_items(cards)) IN
         /\ seen_ids' = seen_ids \cup { NewItems(items)[i].id :
                                          i \in 1..Len(NewItems(items)) }
         /\ todo' = Candidates(items)
         /\ ev' = <<"extract", cards>>
    /\ acts' = <<>>
    /\ pc' = "candidate"
    /\ waits' = 0
    /\ UNCHANGED << page, handed >>
    /\ UNCHANGED << config, elapsed, backoff, job_card_selector, errs,
                    clickAttempted, reloaded, navigated, hasMatched, hasClicked,
                    recovered >>

Matches(it) ==
    it.text # <<>> /\ text_matches(it.text, include_keywords, exclude_keywords)

SkipCandidate ==
    /\ pc = "candidate"
    /\ todo # <<>>
    /\ ~Matches(Head(todo))
    /\ todo' = Tail(todo)
    /\ ev' = <<"skip", Head(todo).id>>
    /\ UNCHANGED << page, waits, handed >>
    /\ UNCHANGED << pc, config, elapsed, seen_ids, backoff, job_card_selector,
                    errs, acts, clickAttempted, reloaded, navigated, hasMatched,
                    hasClicked,
                    recovered >>

\* DryMatch that goes on to the apply-click strategy when keep_running is set
DryMatch_Clicks ==
    /\ pc = "candidate"
    /\ todo # <<>>
    /\ Matches(Head(todo))
    /\ dry_run
    /\ hasMatched' = TRUE
    /\ IF ~keep_running
       THEN pc' = "done" /\ todo' = <<>>
       ELSE pc' = "in_card" /\ todo' = todo
    /\ ev' = <<"match", Head(todo).id>>
    /\ UNCHANGED << page, waits, handed >>
    /\ UNCHANGED << config, elapsed, seen_ids, backoff, job_card_selector, errs,
                    acts, clickAttempted, reloaded, navigated, hasClicked,
                    recovered >>

DryMatch ==
    /\ pc = "candidate"
    /\ todo # <<>>
    /\ Matches(Head(todo))
    /\ dry_run
    /\ hasMatched' = TRUE
    /\ IF ~keep_running
       THEN pc' = "done" /\ todo' = <<>>
       ELSE pc' = pc /\ todo' = Tail(todo)
    /\ ev' = <<"match", Head(todo).id>>
    /\ UNCHANGED << page, waits, handed >>
    /\ UNCHANGED << config, elapsed, seen_ids, backoff, job_card_selector, errs,
                    acts, clickAttempted, reloaded, navigated, hasClicked,
                    recovered >>

StartApply ==
    /\ pc = "candidate"
    /\ todo # <<>>
    /\ Matches(Head(todo))
    /\ ~dry_run
    /\ hasMatched' = TRUE
    /\ acts' = <<>>
    /\ pc' = "in_card"
    /\ ev' = <<"apply", Head(todo).id>>
    /\ handed' = (handed \/ (tracking /\ Head(todo).id = TrackedId))
    /\ UNCHANGED << page, waits >>
    /\ UNCHANGED << config, elapsed, seen_ids, backoff, job_card_selector, todo,
                    errs, clickAttempted, reloaded, navigated, hasClicked,
                    recovered >>


\* ------------------------------------------------- the apply-click strategy
\* TryClickWithinCard that goes to the detail queries without opening the detail
TryClickWithinCard_NoOpen ==
    /\ pc = "in_card"
    /\ clickAttempted' = TRUE
    /\ \E clicked \in BOOLEAN :
         IF clicked
         THEN acts' = Append(acts, "in_card_ok") /\ pc' = "clicked"
         ELSE acts' = Append(acts, "in_card_fail") /\ pc' = "detail"
    /\ ev' = <<>>
    /\ UNCHANGED << page, waits, handed >>
    /\ UNCHANGED << config, elapsed, seen_ids, backoff, job_card_selector, todo,
                    errs, reloaded, navigated, hasMatched, hasClicked,
                    recovered >>

\* try_click_apply_within_card: every query failure is swallowed
TryClickWithinCard ==
    /\ pc = "in_card"
    /\ clickAttempted' = TRUE
    /\ \E clicked \in BOOLEAN :
         IF clicked
         THEN acts' = Append(acts, "in_card_ok") /\ pc' = "clicked"
         ELSE acts' = Append(acts, "in_card_fail") /\ pc' = "open_detail"
    /\ ev' = <<>>
    /\ UNCHANGED << page, waits, handed >>
    /\ UNCHANGED << config, elapsed, seen_ids, backoff, job_card_selector, todo,
                    errs, reloaded, navigated, hasMatched, hasClicked,
                    recovered >>

\* the fallback of run_watcher: page.goto(href) or a click on the card itself,
\* whose failure is swallowed
OpenDetail ==
    /\ pc = "open_detail"
    /\ clickAttempted' = TRUE
    /\ acts' = Append(acts, IF Truthy(Head(todo).href) THEN "goto_href"
                            ELSE "click_card")
    /\ \E ok \in BOOLEAN :
         /\ navigated' = (navigated \/ ok)
         /\ page' = IF ok THEN "elsewhere" ELSE page
    /\ pc' = "detail"
    /\ ev' = <<>>
    /\ UNCHANGED << waits, handed >>
    /\ UNCHANGED << config, elapsed, seen_ids, backoff, job_card_selector, todo,
                    errs, reloaded, hasMatched, hasClicked,
                    recovered >>

\* try_click_apply_on_detail: wait_for_load_state tolerates a TimeoutError only
DetailRaises ==
    /\ pc = "detail"
    /\ Raise
    /\ clickAttempted' = TRUE
    /\ acts' = Append(acts, "detail_raise")
    /\ ev' = <<"raise">>
    /\ UNCHANGED << page, waits, handed >>
    /\ UNCHANGED << config, elapsed, seen_ids, backoff, job_card_selector,
                    reloaded, navigated, hasMatched, hasClicked,
                    recovered >>

\* TryClickOnDetail whose "not clicked" is raised as an error
TryClickOnDetail_Fatal ==
    /\ pc = "detail"
    /\ clickAttempted' = TRUE
    /\ \E clicked \in BOOLEAN :
         IF clicked
         THEN /\ acts' = Append(acts, "detail_ok")
              /\ ev' = <<>>
              /\ pc' = "clicked"
              /\ todo' = todo
         ELSE /\ acts' = Append(acts, "detail_fail")
              /\ ev' = <<"not_clicked", Head(todo).id>>
              /\ pc' = "cooldown"
              /\ todo' = <<>>
    /\ UNCHANGED << page, waits, handed >>
    /\ UNCHANGED << config, elapsed, seen_ids, backoff, job_card_selector, errs,
                    reloaded, navigated, hasMatched, hasClicked, recovered >>

TryClickOnDetail ==
    /\ pc = "detail"
    /\ clickAttempted' = TRUE
    /\ \E clicked \in BOOLEAN :
         IF clicked
         THEN /\ acts' = Append(acts, "detail_ok")
              /\ ev' = <<>>
              /\ pc' = "clicked"
              /\ todo' = todo
         ELSE /\ acts' = Append(acts, "detail_fail")
              /\ ev' = <<"not_clicked", Head(todo).id>>
              /\ pc' = "candidate"
              /\ todo' = Tail(todo)
    /\ UNCHANGED << page, waits, handed >>
    /\ UNCHANGED << config, elapsed, seen_ids, backoff, job_card_selector, errs,
                    reloaded, navigated, hasMatched, hasClicked,
                    recovered >>

\* AfterClick that returns whatever keep_running says
AfterClick_AlwaysExit ==
    /\ pc = "clicked"
    /\ hasClicked' = TRUE
    /\ pc' = "done"
    /\ todo' = <<>>
    /\ ev' = <<>>
    /\ UNCHANGED << page, waits, handed >>
    /\ UNCHANGED << config, elapsed, seen_ids, backoff, job_card_selector, errs,
                    acts, clickAttempted, reloaded, navigated, hasMatched,
                    recovered >>

\* "if clicked:" of run_watcher
AfterClick ==
    /\ pc = "clicked"
    /\ hasClicked' = TRUE
    /\ IF ~keep_running
       THEN pc' = "done" /\ todo' = <<>>
       ELSE pc' = "go_back" /\ todo' = todo
    /\ ev' = <<>>
    /\ UNCHANGED << page, waits, handed >>
    /\ UNCHANGED << config, elapsed, seen_ids, backoff, job_card_selector, errs,
                    acts, clickAttempted, reloaded, navigated, hasMatched,
                    recovered >>

\* GoBack after which the selector is not probed again
GoBack_NoProbe ==
    /\ pc = "go_back"
    /\ reloaded' = TRUE
    /\ todo' = Tail(todo)
    /\ pc' = "candidate"
    /\ page' \in {"listing", "elsewhere"}
    /\ ev' = <<>>
    /\ UNCHANGED << waits, handed >>
    /\ UNCHANGED << config, elapsed, seen_ids, backoff, job_card_selector,
                    errs, acts, clickAttempted, navigated, hasMatched,
                    hasClicked, recovered >>

\* page.go_back(), on failure page.goto(url), on failure nothing
GoBack ==
    /\ pc = "go_back"
    /\ reloaded' = TRUE
    /\ pc' = "reprobe"
    /\ page' \in {"listing", "elsewhere"}
    /\ ev' = <<>>
    /\ UNCHANGED << waits, handed >>
    /\ UNCHANGED << config, elapsed, seen_ids, backoff, job_card_selector, todo,
                    errs, acts, clickAttempted, navigated, hasMatched, hasClicked,
                    recovered >>

ReProbe ==
    /\ pc = "reprobe"
    /\ \E m \in Markups :
         LET sel == pick_working_job_selector(m) IN
         /\ job_card_selector' = IF sel # None THEN sel[1] ELSE job_card_selector
         /\ ev' = <<"probe", sel>>
    /\ reloaded' = FALSE
    /\ navigated' = FALSE
    /\ todo' = Tail(todo)
    /\ pc' = "candidate"
    /\ UNCHANGED << page, waits, handed >>
    /\ UNCHANGED << config, elapsed, seen_ids, backoff, errs, acts,
                    clickAttempted, hasMatched, hasClicked,
                    recovered >>

\* ------------------------------------------------------------ the two waits
\* Sleep with the reset of the backoff left out
Sleep_NoReset ==
    /\ pc = "candidate"
    /\ todo = <<>>
    /\ \E wait_s \in min_interval..max_interval :
         /\ elapsed' = Advance(wait_s)
         /\ ev' = <<"sleep", wait_s>>
    /\ backoff' = backoff
    /\ errs' = 0
    /\ recovered' = (errs > 0)
    /\ acts' = <<>>
    /\ pc' = "loop"
    /\ waits' = Min(waits + 1, 2)
    /\ UNCHANGED << page, handed >>
    /\ UNCHANGED << config, seen_ids, job_card_selector, todo, clickAttempted,
                    reloaded, navigated, hasMatched, hasClicked >>

\* the for loop is over: random.randint, asyncio.sleep, backoff = 5
Sleep ==
    /\ pc = "candidate"
    /\ todo = <<>>
    /\ \E wait_s \in min_interval..max_interval :
         /\ elapsed' = Advance(wait_s)
         /\ ev' = <<"sleep", wait_s>>
    /\ backoff' = BackoffBase
    /\ errs' = 0
    /\ recovered' = (errs > 0)
    /\ acts' = <<>>
    /\ pc' = "loop"
    /\ waits' = Min(waits + 1, 2)
    /\ UNCHANGED << page, handed >>
    /\ UNCHANGED << config, seen_ids, job_card_selector, todo, clickAttempted,
                    reloaded, navigated, hasMatched, hasClicked >>

\* Cooldown with the cap on the backoff left out
Cooldown_NoCap ==
    /\ pc = "cooldown"
    /\ elapsed' = Advance(backoff)
    /\ backoff' = backoff * 2
    /\ acts' = <<>>
    /\ pc' = "loop"
    /\ recovered' = FALSE
    /\ ev' = <<"cooldown", backoff>>
    /\ waits' = Min(waits + 1, 2)
    /\ UNCHANGED << page, handed >>
    /\ UNCHANGED << config, seen_ids, job_card_selector, todo, errs,
                    clickAttempted, reloaded, navigated, hasMatched, hasClicked >>

\* the except clause: asyncio.sleep(backoff), backoff = min(backoff * 2, 120)
Cooldown ==
    /\ pc = "cooldown"
    /\ elapsed' = Advance(backoff)
    /\ backoff' = Min(backoff * 2, BackoffCap)
    /\ acts' = <<>>
    /\ pc' = "loop"
    /\ recovered' = FALSE
    /\ ev' = <<"cooldown", backoff>>
    /\ waits' = Min(waits + 1, 2)
    /\ UNCHANGED << page, handed >>
    /\ UNCHANGED << config, seen_ids, job_card_selector, todo, errs,
                    clickAttempted, reloaded, navigated, hasMatched, hasClicked >>

Next ==
    \/ Startup
    \/ FirstPick
    \/ SoftHardRefresh
    \/ RePick
    \/ NoRefresh
    \/ ExtractRaises
    \/ Extract
    \/ SkipCandidate
    \/ DryMatch
    \/ StartApply
    \/ TryClickWithinCard
    \/ OpenDetail
    \/ DetailRaises
    \/ TryClickOnDetail
    \/ AfterClick
    \/ GoBack
    \/ ReProbe
    \/ Sleep
    \/ Cooldown

Spec == Init /\ [][Next]_vars

TypeOK ==
    /\ pc \in {"ensure_context", "new_page", "goto", "first_pick", "loop",
               "repick", "extract", "candidate", "in_card", "open_detail",
               "detail", "clicked", "go_back", "reprobe", "cooldown", "done",
               "crashed"}
    /\ backoff \in BackoffBase..BackoffCap
    /\ errs \in 0..MaxErrs
    /\ Len(todo) <= MaxItems

\* the run is one sequential coroutine whose awaits all return or raise, so
\* it always takes its next step; the refresh is switched on and the interval
\* arguments are fixed to 1..MaxIntervalArg
FairInit ==
    /\ Init
    /\ hard_refresh_every = RefreshEvery
    /\ min_interval = 1
    /\ max_interval = MaxIntervalArg

FairSpec == FairInit /\ [][Next]_vars /\ WF_vars(Next)

\* ------------------------------------------------------------------ claims
StartupPcs == {"ensure_context", "new_page", "goto", "first_pick"}

\* C1: the k-th cycle-level error in a row waits min(5 * 2^(k-1), 120) seconds,
\* and the backoff value is always between 5 and 120
C1_BackoffSchedule ==
    /\ backoff >= 5
    /\ backoff <= 120
    /\ pc = "cooldown" => backoff = Min(5 * 2 ^ (errs - 1), 120)

C1_Witness == pc = "cooldown" /\ errs = 6 /\ backoff = 120

\* C2: after a cycle that completes without error the next cycle-level error
\* waits 5 seconds again, whatever number of failures came before that cycle
C2_BackoffReset ==
    /\ errs = 0 => backoff = 5
    /\ pc = "cooldown" /\ errs = 1 => backoff = 5

C2_Witness == pc = "cooldown" /\ errs = 1 /\ recovered /\ backoff = 5

C5_BadCycleNeverStops ==
    /\ [][errs' > errs => pc' = "cooldown"]_vars
    /\ [][pc \notin StartupPcs => pc' # "crashed"]_vars
    /\ [][pc = "cooldown" => pc' = "loop"]_vars
    /\ (pc = "cooldown") ~> (pc = "extract")

C5_Witness == pc = "cooldown" /\ acts # <<>> /\ Last(acts) = "detail_raise"

\* C6: when the apply-click strategy reports "not clicked" the loop goes on
\* with the next candidate, without cooldown or exit and with the backoff
\* untouched; the cycle then ends with the inter-scan sleep and backoff 5
C6_ClickFailureNotFatal ==
    /\ [][(acts' # acts /\ acts' # <<>> /\ Last(acts') = "detail_fail") =>
            /\ pc' = "candidate"
            /\ todo' = Tail(todo)
            /\ backoff' = backoff
            /\ errs' = errs]_vars
    /\ [](acts # <<>> /\ Last(acts) = "detail_fail" => pc = "candidate")
    /\ [][pc = "candidate" /\ todo = <<>> => pc' = "loop" /\ backoff' = 5]_vars

C6_Witness ==
    /\ pc = "candidate"
    /\ acts = <<"in_card_fail", "goto_href", "detail_fail">>
    /\ todo # <<>>

\* C7: a failure while launching the browser, opening the page or first
\* loading the URL is retried after a cooldown; the run never ends with an
\* unhandled error
C7_StartupRetried == pc # "crashed"

\* the apply-click steps of one record come in the order in-card, open, detail
ApplyOrder ==
    /\ Len(acts) >= 1 => acts[1] \in {"in_card_ok", "in_card_fail"}
    /\ Len(acts) >= 2 =>
         acts[1] = "in_card_fail" /\ acts[2] \in {"goto_href", "click_card"}
    /\ Len(acts) >= 3 => acts[3] \in {"detail_ok", "detail_fail", "detail_raise"}
    /\ Len(acts) <= 3
    /\ pc = "detail" => Len(acts) = 2
    /\ pc = "open_detail" => acts = <<"in_card_fail">>

\* C8 as stated: the detail phase is entered only after the in-card phase
\* failed; it starts with a goto of the href when the href is present and with
\* a click on the container when the href is absent
C8_Original ==
    /\ ApplyOrder
    /\ pc = "detail" =>
         acts[2] = IF Head(todo).href # None THEN "goto_href" ELSE "click_card"

\* C8 amended: the goto is made when the href is present and not empty, the
\* click on the container when the href is absent or empty
C8_ApplyOrdering ==
    /\ ApplyOrder
    /\ pc = "detail" =>
         acts[2] = IF Head(todo).href # None /\ Head(todo).href # Some(<<>>)
                   THEN "goto_href" ELSE "click_card"

C8_Witness ==
    /\ pc = "detail"
    /\ Head(todo).href = Some(<<>>)
    /\ acts = <<"in_card_fail", "click_card">>

\* C9: after a periodic refresh and after a navigation back the selector is
\* probed before anything else, so before the next extraction
C9_ReprobeAfterReload ==
    reloaded => pc \in {"repick", "reprobe"}

C9_Witness ==
    pc = "extract" /\ hard_refresh_every > 0 /\ elapsed = 0 /\ seen_ids # {}

\* C10: after the apply-click strategy has sent the page to a detail view the
\* selector is probed again before the next extraction
C10_ProbeAfterDetail == pc = "extract" => ~navigated


\* ------------------------------------------------ functions called on their own
\* run_watcher is not running: only arg and res change
WatcherIdle ==
    /\ dry_run = FALSE
    /\ keep_running = FALSE
    /\ hard_refresh_every = 0
    /\ min_interval = 1
    /\ max_interval = 1
    /\ elapsed = 0
    /\ seen_ids = {}
    /\ backoff = BackoffBase
    /\ job_card_selector = "unset"
    /\ todo = <<>>
    /\ errs = 0
    /\ acts = <<>>
    /\ clickAttempted = FALSE
    /\ reloaded = FALSE
    /\ navigated = FALSE
    /\ hasMatched = FALSE
    /\ hasClicked = FALSE
    /\ recovered = FALSE
    /\ page = "elsewhere"
    /\ waits = 0
    /\ ev = <<>>
    /\ tracking = FALSE
    /\ handed = FALSE

watcher == << dry_run, keep_running, hard_refresh_every, min_interval,
             max_interval, elapsed, seen_ids, backoff, job_card_selector, todo,
             errs, acts, clickAttempted, reloaded, navigated, hasMatched,
             hasClicked, recovered, page, waits, ev, tracking, handed >>

\* sequences over S of length 0..n
RECURSIVE SeqsUpTo(_, _)
SeqsUpTo(S, n) ==
    IF n = 0 THEN { <<>> }
    ELSE LET shorter == SeqsUpTo(S, n - 1) IN
         shorter \cup { Append(q, e) : q \in shorter, e \in S }

TextAlphabet == {"p", "P", "t", " "}

\* keywords as main_async passes them: stripped and not empty
KeywordPool == { <<"p">>, <<"P">>, <<"t">>, <<"p", " ", "t">> }

MatchInputs ==
    [text : SeqsUpTo(TextAlphabet, MaxTextLen),
     inc : SeqsUpTo(KeywordPool, MaxKeywords),
     exc : SeqsUpTo(KeywordPool, MaxKeywords)]

MatchInit ==
    /\ WatcherIdle
    /\ pc = "call"
    /\ arg \in MatchInputs
    /\ res = None

CallTextMatches ==
    /\ pc = "call"
    /\ res' = Some(text_matches(arg.text, arg.inc, arg.exc))
    /\ pc' = "return"
    /\ UNCHANGED << watcher, arg >>

MatchSpec == MatchInit /\ [][CallTextMatches]_vars

\* k occurs in text when letter case is ignored
OccursIgnoringCase(k, text) ==
    \E off \in 0..(Len(text) - Len(k)) :
        \A j \in 1..Len(k) : LowerChar(text[off + j]) = LowerChar(k[j])

\* C11: text_matches is true exactly when the include list is empty or one of
\* its keywords occurs in the text ignoring case, and no keyword of the exclude
\* list occurs in the text ignoring case
C11_KeywordMatcher ==
    pc = "return" =>
        res = Some(/\ \/ arg.inc = <<>>
                      \/ \E i \in 1..Len(arg.inc) :
                           OccursIgnoringCase(arg.inc[i], arg.text)
                   /\ ~ \E i \in 1..Len(arg.exc) :
                          OccursIgnoringCase(arg.exc[i], arg.text))

C11_Witness ==
    /\ pc = "return"
    /\ arg.text = <<"P", "t">>
    /\ arg.inc = << <<"p">> >>
    /\ arg.exc = << <<"p", " ", "t">>, <<"t">> >>
    /\ res = Some(FALSE)


\* a text of IdPrefixLen + 1 characters that ends with last
LongText(last) == [i \in 1..(IdPrefixLen + 1) |-> IF i > IdPrefixLen THEN last ELSE "a"]

IdTexts ==
    { <<"a">>, <<"A">>, <<"p">>, <<"a", " ", "|", " ", "p">>,
      LongText("a"), LongText("p") }

IdHrefs ==
    { None, Some(<<>>), Some(<<"/", "a">>), Some(<<"/", "A">>),
      Some(<<"p", " ", "|", " ", "/", "a">>) }

\* two elements as query_selector_all hands them to extract_job_items
IdInputs == [text : { Some(t) : t \in IdTexts }, href : IdHrefs]

IdInit ==
    /\ WatcherIdle
    /\ pc = "call"
    /\ arg \in IdInputs \X IdInputs
    /\ res = None

CallJobId ==
    /\ pc = "call"
    /\ res' = << JobRecord(arg[1]).id, JobRecord(arg[2]).id >>
    /\ pc' = "return"
    /\ UNCHANGED << watcher, arg >>

IdSpec == IdInit /\ [][CallJobId]_vars

SameText == clean_text(arg[1].text) = clean_text(arg[2].text)
SameHref == arg[1].href = arg[2].href

\* C12 as stated: the identities are equal when texts and hrefs are identical
\* and different when the text or the href differs
C12_Original ==
    pc = "return" =>
        /\ SameText /\ SameHref => res[1] = res[2]
        /\ ~SameText \/ ~SameHref => res[1] # res[2]

HrefOrEmpty(c) == IF c.href = None THEN <<>> ELSE c.href[1]

\* C12 amended: equal when texts and hrefs are identical; different when the
\* hrefs are identical and the first 180 characters of the texts differ in more
\* than letter case, or when the texts are identical and the hrefs, an absent
\* one taken as empty, differ in more than letter case
C12_DedupeIdentity ==
    pc = "return" =>
        /\ SameText /\ SameHref => res[1] = res[2]
        /\ /\ SameHref
           /\ Lower(Prefix(clean_text(arg[1].text), 180))
                # Lower(Prefix(clean_text(arg[2].text), 180))
           => res[1] # res[2]
        /\ /\ SameText
           /\ Lower(HrefOrEmpty(arg[1])) # Lower(HrefOrEmpty(arg[2]))
           => res[1] # res[2]

C12_Witness ==
    /\ pc = "return"
    /\ arg[1].text = Some(LongText("a"))
    /\ arg[2].text = Some(LongText("a"))
    /\ arg[1].href = None
    /\ arg[2].href = Some(<<"/", "a">>)
    /\ res[1] # res[2]


\* answers of page.query_selector_all to one candidate selector
BeyondSample == Found([j \in 1..(ProbeSample + 1) |->
                         IF j <= ProbeSample THEN ShortHandle ELSE GoodHandle])
RaiseBeyondSample == Found([j \in 1..(ProbeSample + 1) |->
                              IF j <= ProbeSample THEN GoodHandle ELSE RaisingHandle])

Answers ==
    { Raises,
      Found(<<ShortHandle, NoLinkHandle, NoTextHandle>>),
      Found(<<ShortHandle, GoodHandle>>),
      Found(<<GoodHandle, RaisingHandle>>),
      BeyondSample,
      RaiseBeyondSample }

\* the markups on which at most MaxAnswering candidates match an element or raise
ProbeInputs ==
    { m \in [1..Len(JOB_CARD_SELECTORS) -> Answers \cup {NoHandles}] :
        Cardinality({ i \in 1..Len(JOB_CARD_SELECTORS) : m[i] # NoHandles })
            <= MaxAnswering }

ProbeInit ==
    /\ WatcherIdle
    /\ pc = "call"
    /\ arg \in ProbeInputs
    /\ res = None

CallPick ==
    /\ pc = "call"
    /\ res' = Some(pick_working_job_selector(arg))
    /\ pc' = "return"
    /\ UNCHANGED << watcher, arg >>

ProbeSpec == ProbeInit /\ [][CallPick]_vars

\* the candidate answers without an error and one of its first 8 elements has a
\* normalized text of 5 characters or more and a link
Qualifies(answer) ==
    /\ ~answer.raises
    /\ \A j \in 1..Len(answer.handles) : j <= 8 => ~answer.handles[j].raises
    /\ \E j \in 1..Len(answer.handles) :
         /\ j <= 8
         /\ Len(clean_text(answer.handles[j].text)) >= 5
         /\ answer.handles[j].link

\* C16: pick_working_job_selector returns the earliest candidate in the order
\* of JOB_CARD_SELECTORS that qualifies, and none exactly when none qualifies
C16_SelectorProber ==
    pc = "return" =>
        LET Q == { i \in 1..7 : Qualifies(arg[i]) } IN
        IF Q = {} THEN res = Some(None)
        ELSE \E i \in Q :
               /\ \A k \in Q : i <= k
               /\ res = Some(Some(JOB_CARD_SELECTORS[i]))

C16_Witness ==
    /\ pc = "return"
    /\ arg[4] = BeyondSample
    /\ arg[6] = Found(<<ShortHandle, GoodHandle>>)
    /\ res = Some(Some("article:has(a)"))

\* ------------------------------------------------- claims about the cycle
\* C13: between two consecutive extractions there is exactly one wait: the
\* loop head is reached from the first probe or through one sleep, which is
\* the inter-scan sleep of min_interval..max_interval seconds when the for
\* loop ended without an error and the cooldown sleep when an error was
\* raised; nothing but the refresh and its probe lies between the loop head
\* and the extraction.
C13_PacedScanning ==
    [][ /\ (pc' = "extract" => pc \in {"loop", "repick"})
        /\ (pc \in {"loop", "repick"} => waits' = waits /\ pc' \in {"repick", "extract"})
        /\ (pc' = "loop" => \/ pc = "first_pick" /\ waits' = 0
                            \/ /\ pc = "candidate"
                               /\ waits' = 1
                               /\ Kind(ev') = "sleep"
                               /\ ev'[2] \in Int
                               /\ min_interval <= ev'[2]
                               /\ ev'[2] <= max_interval
                            \/ /\ pc = "cooldown"
                               /\ waits' = 1
                               /\ Kind(ev') = "cooldown")
        /\ (pc' = "cooldown" => Kind(ev') = "raise")
        /\ (Kind(ev') \in {"extract", "raise"} /\ pc = "extract" => waits' = 0)
      ]_vars

\* a second extraction is about to run, one wait after the first
C13_Witness == pc = "extract" /\ waits = 1 /\ seen_ids # {} /\ errs = 1

\* C14: a refresh is performed at the loop head exactly when
\* hard_refresh_every > 0 and the elapsed time exceeds it; with 0 it never
\* is; whatever the refresh did, the cycle goes on to the probe and the
\* extraction without a cycle-level error.
C14_RefreshTrigger ==
    [][ /\ (pc = "loop" => (Kind(ev') = "refresh" <=>
                               hard_refresh_every > 0 /\ elapsed > hard_refresh_every))
        /\ (Kind(ev') = "refresh" => pc = "loop" /\ pc' = "repick" /\ errs' = errs)
        /\ (pc = "repick" => pc' = "extract" /\ errs' = errs)
        /\ (hard_refresh_every = 0 => Kind(ev') # "refresh")
      ]_vars

\* the reload and the fallback goto of a refresh have both failed
C14_Witness == pc = "repick" /\ ev = <<"refresh", "failed">>

\* C15: an extraction leaves the identity of every extracted item in seen_ids,
\* seen_ids never loses an element, and the candidates of the cycle are the
\* items whose identity was not in seen_ids before, or all items when there
\* is no such item.
C15_CandidateSelection ==
    [][ /\ seen_ids \subseteq seen_ids'
        /\ (Kind(ev') = "extract" =>
              LET items == Cap(extract_job_items(ev'[2]))
                  fresh == SelectSeq(items, LAMBDA it : it.id \notin seen_ids)
              IN /\ \A i \in 1..Len(items) : items[i].id \in seen_ids'
                 /\ todo' = IF fresh # <<>> THEN fresh ELSE items)
      ]_vars

\* two elements were extracted and only one of them was new
C15_Witness == Kind(ev) = "extract" /\ Len(ev[2]) = 2 /\ Len(todo) = 1

\* C17: whenever the prober has just reported that no candidate qualifies,
\* the selector the next extraction uses is the all-anchors query.
C17_BroadFallback ==
    (Kind(ev) = "probe" /\ ev[2] = None) => job_card_selector = FallbackSelector

\* C18: every call of extract_job_items is made while the page shows the
\* listing.
C18_ScansOnListing == pc = "extract" => page = "listing"

\* C19: within a cycle no identity is visited twice: a candidate just dealt
\* with (skipped, matched in dry-run, or not clicked) is not followed by a
\* candidate of the same identity.
C19_OncePerIdentity ==
    [][ ~ /\ Kind(ev) \in {"skip", "match", "not_clicked"}
          /\ Kind(ev') \in {"skip", "match", "apply"}
          /\ ev'[2] = ev[2]
      ]_vars

\* the element of the tracked listing is among the elements cards
OnPage(cards) == \E i \in 1..Len(cards) : JobRecord(Universe[cards[i]]).id = TrackedId

\* a run in which the tracked listing is followed; the refresh is switched on
\* and the inter-scan sleep is fixed
LostInit ==
    /\ Start
    /\ tracking = TRUE
    /\ hard_refresh_every = RefreshEvery
    /\ min_interval = 1
    /\ max_interval = 1

LostSpec == LostInit /\ [][Next]_vars

====
